---- MODULE Spec2Model ----
(***************************************************************************)
(* Model of ConvertImgToMP4 (src/__main__.py): a command-line script that  *)
(* walks a directory tree for image files, resizes and pads each image to  *)
(* a 2560x1440 frame and appends the frames to an mp4v video writer.       *)
(*                                                                         *)
(* Strings are sequences of one-character strings, so that str.lower,      *)
(* str.endswith, os.path.dirname and os.path.join are computed character   *)
(* by character.  Python floats are IEEE-754 binary64 values, modelled by  *)
(* their 53-bit significand (a sequence of bits, most significant first)   *)
(* and the exponent of the last bit, so that int(w * (W / w)) is computed  *)
(* with the rounding the interpreter performs.                             *)
(***************************************************************************)
EXTENDS Integers, Sequences, FiniteSets, TLC

(***************************************************************************)
(* IEEE-754 binary64 arithmetic on positive values (Python float).         *)
(***************************************************************************)

\* Width of the binary64 significand (CPython float is a C double).
MantBits == 53

\* Digits handled per step of the long division and of the multiplication:
\* with operands below 2^LimbBits every intermediate product stays below 2^31.
LimbBits == 15

\* Number of binary digits of a natural number below 2^30 (0 has none).
BitLen(n) == CHOOSE L \in 0..30 : n < 2 ^ L /\ (L = 0 \/ n >= 2 ^ (L - 1))

\* The L low binary digits of n, most significant first.
FixedBits(n, L) == [k \in 1..L |-> (n \div (2 ^ (L - k))) % 2]

\* Binary digits of a natural number, most significant first (0 is <<>>).
ToBits(n) == FixedBits(n, BitLen(n))

RECURSIVE FromBits(_)
\* The natural number written by a sequence of binary digits.
FromBits(b) ==
  IF Len(b) = 0 THEN 0
  ELSE IF Len(b) = 1 THEN b[1]
  ELSE LET half == Len(b) \div 2
           low  == SubSeq(b, half + 1, Len(b))
       IN  FromBits(SubSeq(b, 1, half)) * (2 ^ Len(low)) + FromBits(low)

\* Whether some digit of b is 1.
AnyBit(b) == \E k \in 1..Len(b) : b[k] = 1

\* n zero digits.
Zeros(n) == [k \in 1..n |-> 0]

\* b without its leading zero digits.
StripZeros(b) ==
  IF ~AnyBit(b) THEN <<>>
  ELSE LET first == CHOOSE k \in 1..Len(b) :
                      b[k] = 1 /\ \A j \in 1..(k - 1) : b[j] = 0
       IN  SubSeq(b, first, Len(b))

\* b + 1 on binary digits; the result is one digit longer on carry-out.
IncBits(b) ==
  IF \A k \in 1..Len(b) : b[k] = 1 THEN <<1>> \o Zeros(Len(b))
  ELSE LET last == CHOOSE k \in 1..Len(b) :
                     b[k] = 0 /\ \A j \in (k + 1)..Len(b) : b[j] = 1
       IN  [k \in 1..Len(b) |-> IF k < last THEN b[k] ELSE IF k = last THEN 1 ELSE 0]

\* Round-half-to-even of the value bits * 2^e (+ a non-zero tail below the
\* last digit when sticky) to a MantBits-digit significand.  bits has no
\* leading zero.  The result is [m, e]: the value FromBits(m) * 2^e.
RoundFloat(bits, e, sticky) ==
  IF Len(bits) <= MantBits
  THEN [m |-> bits \o Zeros(MantBits - Len(bits)), e |-> e - (MantBits - Len(bits))]
  ELSE LET keep == SubSeq(bits, 1, MantBits)
           rest == SubSeq(bits, MantBits + 1, Len(bits))
           e2   == e + Len(rest)
           tail == sticky \/ AnyBit(SubSeq(rest, 2, Len(rest)))
           up   == rest[1] = 1 /\ (tail \/ keep[MantBits] = 1)
           inc  == IncBits(keep)
       IN  IF ~up THEN [m |-> keep, e |-> e2]
           ELSE IF Len(inc) > MantBits
                THEN [m |-> SubSeq(inc, 1, MantBits), e |-> e2 + 1]
                ELSE [m |-> inc, e |-> e2]

\* a / b for Python ints 0 < a, 0 < b < 2^(LimbBits+1): the correctly rounded
\* quotient.  Long division, LimbBits digits of the fraction per step; five
\* steps give at least MantBits + 1 significant digits, the last remainder
\* tells whether digits follow.
FloatDiv(a, b) ==
  LET B  == 2 ^ LimbBits
      r0 == a % b
      r1 == (r0 * B) % b
      r2 == (r1 * B) % b
      r3 == (r2 * B) % b
      r4 == (r3 * B) % b
      r5 == (r4 * B) % b
      digits == ToBits(a \div b)
                  \o FixedBits((r0 * B) \div b, LimbBits)
                  \o FixedBits((r1 * B) \div b, LimbBits)
                  \o FixedBits((r2 * B) \div b, LimbBits)
                  \o FixedBits((r3 * B) \div b, LimbBits)
                  \o FixedBits((r4 * B) \div b, LimbBits)
  IN  RoundFloat(StripZeros(digits), -(5 * LimbBits), r5 # 0)

\* Binary digits of FromBits(bits) * n for 0 < n < 2^LimbBits and a
\* MantBits-digit bits: schoolbook multiplication, LimbBits digits per step.
MulBits(bits, n) ==
  LET B  == 2 ^ LimbBits
      L  == Len(bits)
      c0 == FromBits(SubSeq(bits, L - LimbBits + 1, L))
      c1 == FromBits(SubSeq(bits, L - 2 * LimbBits + 1, L - LimbBits))
      c2 == FromBits(SubSeq(bits, L - 3 * LimbBits + 1, L - 2 * LimbBits))
      c3 == FromBits(SubSeq(bits, 1, L - 3 * LimbBits))
      p0 == c0 * n
      p1 == c1 * n + p0 \div B
      p2 == c2 * n + p1 \div B
      p3 == c3 * n + p2 \div B
  IN  ToBits(p3) \o FixedBits(p2 % B, LimbBits) \o FixedBits(p1 % B, LimbBits)
                 \o FixedBits(p0 % B, LimbBits)

\* n * f for a Python int 0 < n < 2^LimbBits and a float f: the correctly
\* rounded product (n converts to float exactly).
FloatMulInt(n, f) == RoundFloat(MulBits(f.m, n), f.e, FALSE)

\* Lexicographic order of two digit sequences of equal length.
BitsLess(a, b) ==
  \E k \in 1..Len(a) : a[k] < b[k] /\ \A j \in 1..(k - 1) : a[j] = b[j]

\* f < g for two positive floats (both significands have MantBits digits).
FloatLess(f, g) == IF f.e # g.e THEN f.e < g.e ELSE BitsLess(f.m, g.m)

\* Python's min(f, g): the first argument unless the second is smaller.
FloatMin(f, g) == IF FloatLess(g, f) THEN g ELSE f

\* int(f) for a positive float: truncation toward zero.
FloatToInt(f) ==
  IF f.e >= 0 THEN FromBits(f.m) * (2 ^ f.e)
  ELSE IF Len(f.m) + f.e <= 0 THEN 0
  ELSE FromBits(SubSeq(f.m, 1, Len(f.m) + f.e))

\* A half rounded up instead of truncated, as round-to-even or ceil would do
\* for an odd x.
IntHalfUp(x) == IF x >= 0 THEN (x + 1) \div 2 ELSE -((-x) \div 2)

\* int(x / 2) for a Python int x: x / 2 is exact in binary64, and int()
\* truncates toward zero.
IntHalf(x) == IF x >= 0 THEN x \div 2 ELSE -((-x) \div 2)

(***************************************************************************)
(* Strings (sequences of one-character strings) and os.path (posixpath).   *)
(***************************************************************************)

\* Python's None where a string may stand: no string of characters equals it.
None == <<"<None>">>

\* str.lower() on one character, for the letters the model's names use.
LowerChar(c) ==
  CASE c = "A" -> "a" [] c = "E" -> "e" [] c = "F" -> "f" [] c = "G" -> "g"
    [] c = "I" -> "i" [] c = "J" -> "j" [] c = "N" -> "n" [] c = "P" -> "p"
    [] OTHER -> c

\* str.lower().
Lower(s) == [k \in 1..Len(s) |-> LowerChar(s[k])]

\* str.endswith(suffix).
EndsWith(s, suffix) ==
  /\ Len(suffix) <= Len(s)
  /\ SubSeq(s, Len(s) - Len(suffix) + 1, Len(s)) = suffix

\* The extensions tested at src/__main__.py line 80.
ImageSuffixes ==
  { <<".", "p", "n", "g">>, <<".", "j", "p", "g">>,
    <<".", "j", "p", "e", "g">>, <<".", "g", "i", "f">> }

\* The extension test without lower(): case-sensitive.
IsImageNameCaseSensitive(file) == \E suffix \in ImageSuffixes : EndsWith(file, suffix)

\* file.lower().endswith(('.png', '.jpg', '.jpeg', '.gif')).
IsImageName(file) == \E suffix \in ImageSuffixes : EndsWith(Lower(file), suffix)

\* str.rstrip('/').
RStripSlash(s) ==
  LET keep == {k \in 1..Len(s) : s[k] # "/"}
  IN  IF keep = {} THEN <<>>
      ELSE SubSeq(s, 1, CHOOSE k \in keep : \A j \in keep : j <= k)

\* os.path.dirname(p): everything up to the last '/', with the trailing
\* slashes of that head removed unless the head is slashes only.
Dirname(p) ==
  LET slashes == {k \in 1..Len(p) : p[k] = "/"}
      i    == IF slashes = {} THEN 0
              ELSE CHOOSE k \in slashes : \A j \in slashes : j <= k
      head == SubSeq(p, 1, i)
  IN  IF Len(head) > 0 /\ (\E k \in 1..Len(head) : head[k] # "/")
      THEN RStripSlash(head) ELSE head

\* os.path.join(a, b): b alone when b is absolute, else a and b with one
\* '/' between them unless a is empty or already ends in '/'.
Join(a, b) ==
  IF Len(b) > 0 /\ b[1] = "/" THEN b
  ELSE IF Len(a) = 0 \/ a[Len(a)] = "/" THEN a \o b
  ELSE a \o <<"/">> \o b

\* f"{file_name}.mp4".
Mp4Name(file_name) == file_name \o <<".", "m", "p", "4">>

(***************************************************************************)
(* The directory tree under the input path.  Entry n of fs is a directory  *)
(* or a file; parent 0 is the input path itself.  img is what cv2.imread   *)
(* decodes from a file: its width and height, or NoImage (imread returns   *)
(* None) when the content is not a decodable image.                        *)
(***************************************************************************)

\* cv2.imread's None.
NoImage == [w |-> 0, h |-> 0]

\* The entries that may be added to the tree fs: in the input path or in a
\* directory of fs, under a name no sibling has.
NewEntries(fs, names, images) ==
  LET dirs == {0} \cup {d \in 1..Len(fs) : fs[d].kind = "dir"}
      free(e) == \A n \in 1..Len(fs) :
                   ~(fs[n].parent = e.parent /\ fs[n].name = e.name)
  IN  {e \in [parent : dirs, name : names, kind : {"file"}, img : images]
               \cup [parent : dirs, name : names, kind : {"dir"}, img : {NoImage}] :
         free(e)}

RECURSIVE FileSystems(_, _, _)
\* Every tree of at most n entries.
FileSystems(n, names, images) ==
  IF n = 0 THEN {<<>>}
  ELSE LET smaller == FileSystems(n - 1, names, images)
       IN  smaller \cup
           UNION { {Append(fs, e) : e \in NewEntries(fs, names, images)} :
                   fs \in {f \in smaller : Len(f) = n - 1} }

RECURSIVE Ascending(_)
\* The members of a set of entry numbers in ascending order: the order in
\* which the model's scandir lists them.
Ascending(S) ==
  IF S = {} THEN <<>>
  ELSE LET least == CHOOSE n \in S : \A m \in S : n <= m
       IN  <<least>> \o Ascending(S \ {least})

RECURSIVE Flatten(_)
\* Concatenation of a sequence of sequences.
Flatten(ss) == IF Len(ss) = 0 THEN <<>> ELSE Head(ss) \o Flatten(Tail(ss))

RECURSIVE os_walk(_, _, _)
\* os.walk(top), top-down: (root, files) of the directory d whose path is
\* top, then the walk of each of its sub-directories at os.path.join(top, name).
os_walk(fs, d, top) ==
  LET files == Ascending({n \in 1..Len(fs) : fs[n].parent = d /\ fs[n].kind = "file"})
      dirs  == Ascending({n \in 1..Len(fs) : fs[n].parent = d /\ fs[n].kind = "dir"})
  IN  << [root |-> top, files |-> [k \in 1..Len(files) |-> fs[files[k]].name]] >>
      \o Flatten([k \in 1..Len(dirs) |->
                    os_walk(fs, dirs[k], Join(top, fs[dirs[k]].name))])

\* get_image_files(path): the joined path of every file of the walk whose
\* lower-cased name ends in an image extension, in walk order.
get_image_files(fs, top) ==
  LET walk == os_walk(fs, 0, top)
      found(entry) ==
        LET files == SelectSeq(entry.files, IsImageName)
        IN  [k \in 1..Len(files) |-> Join(entry.root, files[k])]
  IN  Flatten([k \in 1..Len(walk) |-> found(walk[k])])

RECURSIVE FullPath(_, _, _)
\* The path under which entry n of fs is reached from the input path top.
FullPath(fs, top, n) ==
  IF n = 0 THEN top ELSE Join(FullPath(fs, top, fs[n].parent), fs[n].name)

\* cv2.imread(filename): the decoded image of the file at that path, None
\* when there is no such file or its content does not decode.
imread(fs, top, filename) ==
  LET hits == {n \in 1..Len(fs) : fs[n].kind = "file" /\ FullPath(fs, top, n) = filename}
  IN  IF hits = {} THEN NoImage ELSE fs[CHOOSE n \in hits : TRUE].img

(***************************************************************************)
(* resize_image.                                                           *)
(***************************************************************************)

\* resize_image(image, width, height), lines 96-103: the locals of the call
\* and the size of the padded image it returns.  cv2.resize raises when the
\* requested size has a zero side.
resize_image(img, width, height) ==
  LET aspect_ratio   == FloatMin(FloatDiv(width, img.w), FloatDiv(height, img.h))
      new_width      == FloatToInt(FloatMulInt(img.w, aspect_ratio))
      new_height     == FloatToInt(FloatMulInt(img.h, aspect_ratio))
      padding_width  == IntHalf(width - new_width)
      padding_height == IntHalf(height - new_height)
      raised         == new_width = 0 \/ new_height = 0
  IN  [ image |-> img, width |-> width, height |-> height,
        new_width |-> new_width, new_height |-> new_height,
        padding_width |-> padding_width, padding_height |-> padding_height,
        raised |-> raised,
        padded_image |-> IF raised THEN NoImage
                         ELSE [w |-> new_width + 2 * padding_width,
                               h |-> new_height + 2 * padding_height] ]

(***************************************************************************)
(* The program state.                                                      *)
(***************************************************************************)

VARIABLES
  sys_argv,            \* sys.argv: the program name, then the arguments
  fs,                  \* the directory tree under the input path
  pc,                  \* the statement the run is at
  file_name,           \* create_video_from_images' parameters and locals
  path,
  destination_folder,
  output_path,
  image_files,
  first_image,
  video_writer,        \* the sink: "Idle", "Open" or "Closed"
  frames,              \* what video_writer.write was given, in order
  releases,            \* number of video_writer.release() calls
  progress_bar,        \* tqdm: [total, n]
  idx,                 \* position of the for loop in image_files
  image,               \* the image the loop decoded
  resize_call,         \* the latest resize_image call: arguments and locals
  resized_image,
  error,               \* the exception that ended the run, "none" if none
  printed              \* the path the success message names, None before

vars == << sys_argv, fs, pc, file_name, path, destination_folder, output_path,
           image_files, first_image, video_writer, frames, releases,
           progress_bar, idx, image, resize_call, resized_image, error, printed >>

\* Lines 36-37: the output video size.
output_width == 2560
output_height == 1440

\* A resize_image call that has not run: its arguments only.
Called(img, width, height) ==
  [ image |-> img, width |-> width, height |-> height,
    new_width |-> 0, new_height |-> 0, padding_width |-> 0, padding_height |-> 0,
    raised |-> FALSE, padded_image |-> NoImage ]

\* The run ends with an uncaught exception.
Raise(exception) == pc' = "failed" /\ error' = exception

(***************************************************************************)
(* The statements of the script, in program order.                         *)
(***************************************************************************)

\* Lines 105-112: the command line.  sys.argv[2] is read unconditionally.
Main ==
  /\ pc = "main"
  /\ file_name' = IF Len(sys_argv) > 1 THEN sys_argv[2] ELSE None
  /\ IF Len(sys_argv) < 3
     THEN /\ Raise("IndexError")
          /\ UNCHANGED <<path, destination_folder>>
     ELSE /\ path' = sys_argv[3]
          /\ destination_folder' = IF Len(sys_argv) > 3 THEN sys_argv[4] ELSE None
          /\ pc' = "create"
          /\ UNCHANGED error
  /\ UNCHANGED << sys_argv, fs, output_path, image_files, first_image, video_writer,
                  frames, releases, progress_bar, idx, image, resize_call,
                  resized_image, printed >>

\* Lines 17-26: the defaults and the output path.
OutputPath ==
  /\ pc = "create"
  /\ file_name' = IF file_name = None THEN <<"n", "o", "n", "e">> ELSE file_name
  /\ destination_folder' =
       IF destination_folder = None THEN Dirname(path) ELSE destination_folder
  /\ output_path' = Join(destination_folder', Mp4Name(file_name'))
  /\ pc' = "discover"
  /\ UNCHANGED << sys_argv, fs, path, image_files, first_image, video_writer, frames,
                  releases, progress_bar, idx, image, resize_call, resized_image,
                  error, printed >>

\* Line 29: image_files = get_image_files(path).
Discover ==
  /\ pc = "discover"
  /\ image_files' = get_image_files(fs, path)
  /\ pc' = "first"
  /\ UNCHANGED << sys_argv, fs, file_name, path, destination_folder, output_path,
                  first_image, video_writer, frames, releases, progress_bar, idx,
                  image, resize_call, resized_image, error, printed >>

\* Lines 32-33: image_files[0] of an empty list raises IndexError; .shape of
\* the None that imread returns for an undecodable file raises AttributeError.
ReadFirst ==
  /\ pc = "first"
  /\ IF Len(image_files) = 0
     THEN Raise("IndexError") /\ UNCHANGED first_image
     ELSE /\ first_image' = imread(fs, path, image_files[1])
          /\ IF first_image' = NoImage
             THEN Raise("AttributeError")
             ELSE pc' = "open" /\ UNCHANGED error
  /\ UNCHANGED << sys_argv, fs, file_name, path, destination_folder, output_path,
                  image_files, video_writer, frames, releases, progress_bar, idx,
                  image, resize_call, resized_image, printed >>

\* Lines 36-48: the video writer is opened, the progress bar created and the
\* loop entered (image_files is not empty here).
OpenWriter ==
  /\ pc = "open"
  /\ video_writer' = "Open"
  /\ progress_bar' = [total |-> Len(image_files), n |-> 0]
  /\ idx' = 1
  /\ pc' = "decode"
  /\ UNCHANGED << sys_argv, fs, file_name, path, destination_folder, output_path,
                  image_files, first_image, frames, releases, image, resize_call,
                  resized_image, error, printed >>

\* Line 49: image = cv2.imread(image_file).
Decode ==
  /\ pc = "decode"
  /\ image' = imread(fs, path, image_files[idx])
  /\ pc' = "resize"
  /\ UNCHANGED << sys_argv, fs, file_name, path, destination_folder, output_path,
                  image_files, first_image, video_writer, frames, releases,
                  progress_bar, idx, resize_call, resized_image, error, printed >>

\* A loop that skips a file that does not decode and goes on with the next.
ResizeSkipsUndecodable ==
  /\ pc = "resize"
  /\ IF image = NoImage
     THEN /\ resize_call' = Called(image, output_width, output_height)
          /\ idx' = idx + 1
          /\ pc' = IF idx < Len(image_files) THEN "decode" ELSE "release"
          /\ UNCHANGED <<resized_image, error>>
     ELSE /\ resize_call' = resize_image(image, output_width, output_height)
          /\ UNCHANGED idx
          /\ IF resize_call'.raised
             THEN Raise("cv2.error") /\ UNCHANGED resized_image
             ELSE /\ resized_image' = resize_call'.padded_image
                  /\ pc' = "write"
                  /\ UNCHANGED error
  /\ UNCHANGED << sys_argv, fs, file_name, path, destination_folder, output_path,
                  image_files, first_image, video_writer, frames, releases,
                  progress_bar, image, printed >>

\* Line 52: resized_image = resize_image(image, output_width, output_height).
\* image.shape of None raises AttributeError, cv2.resize to a zero size
\* raises cv2.error.
Resize ==
  /\ pc = "resize"
  /\ IF image = NoImage
     THEN /\ Raise("AttributeError")
          /\ resize_call' = Called(image, output_width, output_height)
          /\ UNCHANGED resized_image
     ELSE /\ resize_call' = resize_image(image, output_width, output_height)
          /\ IF resize_call'.raised
             THEN Raise("cv2.error") /\ UNCHANGED resized_image
             ELSE /\ resized_image' = resize_call'.padded_image
                  /\ pc' = "write"
                  /\ UNCHANGED error
  /\ UNCHANGED << sys_argv, fs, file_name, path, destination_folder, output_path,
                  image_files, first_image, video_writer, frames, releases,
                  progress_bar, idx, image, printed >>

\* A loop that steps over the file after the one it has written.
WriteSkipsNext ==
  /\ pc = "write"
  /\ frames' = Append(frames, [file |-> image_files[idx],
                               w |-> resized_image.w, h |-> resized_image.h])
  /\ progress_bar' = [progress_bar EXCEPT !.n = @ + 1]
  /\ idx' = idx + 2
  /\ pc' = IF idx + 1 < Len(image_files) THEN "decode" ELSE "release"
  /\ UNCHANGED << sys_argv, fs, file_name, path, destination_folder, output_path,
                  image_files, first_image, video_writer, releases, image,
                  resize_call, resized_image, error, printed >>

\* Lines 55-58 and the loop's next iteration: the frame is written, the
\* progress bar advanced.
Write ==
  /\ pc = "write"
  /\ frames' = Append(frames, [file |-> image_files[idx],
                               w |-> resized_image.w, h |-> resized_image.h])
  /\ progress_bar' = [progress_bar EXCEPT !.n = @ + 1]
  /\ idx' = idx + 1
  /\ pc' = IF idx < Len(image_files) THEN "decode" ELSE "release"
  /\ UNCHANGED << sys_argv, fs, file_name, path, destination_folder, output_path,
                  image_files, first_image, video_writer, releases, image,
                  resize_call, resized_image, error, printed >>

\* A run that goes on to the success message without releasing the writer.
ReleaseForgotten ==
  /\ pc = "release"
  /\ pc' = "finish"
  /\ UNCHANGED << sys_argv, fs, file_name, path, destination_folder, output_path,
                  image_files, first_image, video_writer, frames, releases,
                  progress_bar, idx, image, resize_call, resized_image, error,
                  printed >>

\* Lines 61-62: video_writer.release().
Release ==
  /\ pc = "release"
  /\ video_writer' = "Closed"
  /\ releases' = releases + 1
  /\ pc' = "finish"
  /\ UNCHANGED << sys_argv, fs, file_name, path, destination_folder, output_path,
                  image_files, first_image, frames, progress_bar, idx, image,
                  resize_call, resized_image, error, printed >>

\* Lines 64-65: the progress bar is closed and the success message printed.
Finish ==
  /\ pc = "finish"
  /\ printed' = output_path
  /\ pc' = "done"
  /\ UNCHANGED << sys_argv, fs, file_name, path, destination_folder, output_path,
                  image_files, first_image, video_writer, frames, releases,
                  progress_bar, idx, image, resize_call, resized_image, error >>

\* A direct call of resize_image with the arguments held in resize_call.
ResizeCall ==
  /\ pc = "resize_image"
  /\ resize_call' = resize_image(resize_call.image, resize_call.width, resize_call.height)
  /\ IF resize_call'.raised
     THEN Raise("cv2.error") /\ UNCHANGED resized_image
     ELSE /\ resized_image' = resize_call'.padded_image
          /\ pc' = "returned"
          /\ UNCHANGED error
  /\ UNCHANGED << sys_argv, fs, file_name, path, destination_folder, output_path,
                  image_files, first_image, video_writer, frames, releases,
                  progress_bar, idx, image, printed >>

(***************************************************************************)
(* Inputs.                                                                 *)
(***************************************************************************)

\* Entries of the directory tree of a run of the script.
MaxEntries == 2

\* Entries of the directory tree get_image_files is applied to.
MaxWalkEntries == 2

\* Length of the path strings create_video_from_images is called with.
MaxPathLen == 3

\* Sides of the small source images, and of the small target boxes,
\* resize_image is called with.
MaxSide == 8
MaxBox == 3

\* Names in the tree of a run: two images and a text file.
RunNames ==
  { <<"a", ".", "p", "n", "g">>, <<"b", ".", "J", "P", "G">>,
    <<"c", ".", "t", "x", "t">> }

\* Contents of the files of a run: undecodable, 800x600, 1000x999, 1x1441.
RunImages ==
  { NoImage, [w |-> 800, h |-> 600], [w |-> 1000, h |-> 999], [w |-> 1, h |-> 1441] }

\* Names in the tree get_image_files is applied to: each extension, in
\* lower, upper and mixed case, a text file, and "png" without a dot.
WalkNames ==
  { <<"a", ".", "p", "n", "g">>, <<"b", ".", "J", "P", "G">>,
    <<"c", ".", "J", "p", "e", "G">>, <<"d", ".", "G", "I", "F">>,
    <<"e", ".", "t", "x", "t">>, <<"p", "n", "g">> }

\* Contents of those files: undecodable or a 4x3 image.
WalkImages == { NoImage, [w |-> 4, h |-> 3] }

\* The command line "m v /d /o x"; runs are started with each prefix of it.
FullArgv == << <<"m">>, <<"v">>, <<"/", "d">>, <<"/", "o">>, <<"x">> >>
ArgvSamples == {SubSeq(FullArgv, 1, k) : k \in 1..Len(FullArgv)}

RECURSIVE Strings(_, _)
\* The strings of length 1..n over an alphabet.
Strings(alphabet, n) ==
  IF n = 0 THEN {}
  ELSE LET shorter == Strings(alphabet, n - 1)
       IN  {<<c>> : c \in alphabet} \cup shorter
             \cup {Append(s, c) : s \in shorter, c \in alphabet}

\* Input paths, names and destinations of direct calls.
PathSamples == Strings({"/", "d", "e"}, MaxPathLen)
NameSamples == {None, <<"v">>}
DestinationSamples == {None, <<"/", "o">>, <<"o", "/">>}

\* Source image sides: the small ones and sides around the output size,
\* among them 39 and 77, where h * (1440 / h) and w * (2560 / w) round below
\* 1440 and 2560.
SideSamples ==
  (1..MaxSide) \cup {39, 77, 600, 800, 999, 1000, 1080, 1440, 1441, 1920, 2560, 5000}

\* Target boxes: the output size and the small boxes.
BoxSamples ==
  {<<output_width, output_height>>} \cup ((1..MaxBox) \X (1..MaxBox))

(***************************************************************************)
(* Specifications.                                                         *)
(***************************************************************************)

\* Everything but the inputs, before the script has run.
Blank ==
  /\ file_name = None /\ path = None /\ destination_folder = None
  /\ output_path = None /\ image_files = <<>> /\ first_image = NoImage
  /\ video_writer = "Idle" /\ frames = <<>> /\ releases = 0
  /\ progress_bar = [total |-> 0, n |-> 0] /\ idx = 0 /\ image = NoImage
  /\ resize_call = Called(NoImage, 0, 0) /\ resized_image = NoImage
  /\ error = "none" /\ printed = None

\* A run of the script from the command line.
Init ==
  /\ sys_argv \in ArgvSamples
  /\ fs \in FileSystems(MaxEntries, RunNames, RunImages)
  /\ pc = "main"
  /\ Blank

Next ==
  \/ Main \/ OutputPath \/ Discover \/ ReadFirst \/ OpenWriter
  \/ Decode \/ Resize \/ Write \/ Release \/ Finish

Spec == Init /\ [][Next]_vars

\* A direct call create_video_from_images(file_name, path, destination_folder)
\* on a folder holding one image and one text file.
CallTree ==
  << [parent |-> 0, name |-> <<"a", ".", "p", "n", "g">>, kind |-> "file",
      img |-> [w |-> 800, h |-> 600]],
     [parent |-> 0, name |-> <<"c", ".", "t", "x", "t">>, kind |-> "file",
      img |-> NoImage] >>

InitCall ==
  /\ sys_argv = <<>>
  /\ fs = CallTree
  /\ pc = "create"
  /\ file_name \in NameSamples
  /\ path \in PathSamples
  /\ destination_folder \in DestinationSamples
  /\ output_path = None /\ image_files = <<>> /\ first_image = NoImage
  /\ video_writer = "Idle" /\ frames = <<>> /\ releases = 0
  /\ progress_bar = [total |-> 0, n |-> 0] /\ idx = 0 /\ image = NoImage
  /\ resize_call = Called(NoImage, 0, 0) /\ resized_image = NoImage
  /\ error = "none" /\ printed = None

NextCall ==
  \/ OutputPath \/ Discover \/ ReadFirst \/ OpenWriter
  \/ Decode \/ Resize \/ Write \/ Release \/ Finish

SpecCall == InitCall /\ [][NextCall]_vars

\* get_image_files(path) applied to every tree of at most MaxWalkEntries entries.
InitWalk ==
  /\ sys_argv = <<>>
  /\ fs \in FileSystems(MaxWalkEntries, WalkNames, WalkImages)
  /\ pc = "discover"
  /\ file_name = None /\ path = <<"/", "d">> /\ destination_folder = None
  /\ output_path = None /\ image_files = <<>> /\ first_image = NoImage
  /\ video_writer = "Idle" /\ frames = <<>> /\ releases = 0
  /\ progress_bar = [total |-> 0, n |-> 0] /\ idx = 0 /\ image = NoImage
  /\ resize_call = Called(NoImage, 0, 0) /\ resized_image = NoImage
  /\ error = "none" /\ printed = None

NextWalk == Discover

SpecWalk == InitWalk /\ [][NextWalk]_vars

\* resize_image(image, width, height) applied to every sampled image and box.
InitResize ==
  /\ sys_argv = <<>>
  /\ fs = <<>>
  /\ pc = "resize_image"
  /\ \E w \in SideSamples, h \in SideSamples, box \in BoxSamples :
       resize_call = Called([w |-> w, h |-> h], box[1], box[2])
  /\ file_name = None /\ path = None /\ destination_folder = None
  /\ output_path = None /\ image_files = <<>> /\ first_image = NoImage
  /\ video_writer = "Idle" /\ frames = <<>> /\ releases = 0
  /\ progress_bar = [total |-> 0, n |-> 0] /\ idx = 0 /\ image = NoImage
  /\ resized_image = NoImage /\ error = "none" /\ printed = None

NextResize == ResizeCall

SpecResize == InitResize /\ [][NextResize]_vars

(***************************************************************************)
(* Properties.                                                             *)
(***************************************************************************)

\* The files whose frames were written, in the order of writing.
WrittenFiles == [k \in 1..Len(frames) |-> frames[k].file]

\* get_image_files has returned.
Discovered == pc \notin {"main", "create", "discover"} /\ output_path # None

\* The positions in image_files of the files cv2.imread cannot decode.
Undecodable ==
  {k \in 1..Len(image_files) : imread(fs, path, image_files[k]) = NoImage}

\* C1: a completed run has written exactly one frame per discovered file, in
\* discovery order (the written files are image_files itself); at every
\* moment the written files are the first files of image_files, and file idx
\* is decoded, resized and written only when the idx - 1 files before it
\* have been written.
C1_FramesInDiscoveryOrder ==
  /\ Len(frames) <= Len(image_files)
  /\ WrittenFiles = SubSeq(image_files, 1, Len(frames))
  /\ pc \in {"decode", "resize", "write"} => Len(frames) = idx - 1
  /\ pc \in {"release", "finish", "done"} => WrittenFiles = image_files

\* C1 witness: a run completed with two different files written, the first
\* of them the first file discovered.
C1_Witness ==
  /\ pc = "done"
  /\ Len(image_files) = 2
  /\ Len(frames) = 2
  /\ frames[1].file # frames[2].file
  /\ frames[1].file = image_files[1]

\* C2: every frame given to the video writer is 2560 wide and 1440 high.
C2_EveryFrameIsOutputSize ==
  \A k \in 1..Len(frames) : frames[k].w = output_width /\ frames[k].h = output_height

\* side * min(width / w, height / h) in exact rational arithmetic: its
\* numerator and denominator.
ExactNum(side, w, h, width, height) ==
  IF width * h <= height * w THEN side * width ELSE side * height
ExactDen(w, h, width, height) == IF width * h <= height * w THEN w ELSE h

\* C3 on one axis: the scaled side is the truncation of side * ratio (the
\* floor of the exact product num / den, or one less where that product is
\* integral and its float computation rounds below it), the padding is the
\* truncated half of target - scaled, and the padded side is the target when
\* target - scaled is even, one less when it is odd, never more.
C3_Axis(num, den, scaled, padding, target) ==
  /\ \/ scaled = num \div den
     \/ num % den = 0 /\ scaled = (num \div den) - 1
  /\ 2 * padding <= target - scaled
  /\ target - scaled <= 2 * padding + 1
  /\ scaled + 2 * padding = IF (target - scaled) % 2 = 0 THEN target ELSE target - 1
  /\ scaled + 2 * padding <= target

\* C3: resize_image scales by min(width / w, height / h) with truncation,
\* pads each side by trunc((target - scaled) / 2), and returns an image that
\* on each axis has the target size when target - scaled is even and is one
\* pixel short when it is odd, never larger than the target.
C3_ResizePadArithmetic ==
  pc \in {"returned", "failed"} =>
    LET c == resize_call
        den == ExactDen(c.image.w, c.image.h, c.width, c.height)
    IN  /\ C3_Axis(ExactNum(c.image.w, c.image.w, c.image.h, c.width, c.height), den,
                   c.new_width, c.padding_width, c.width)
        /\ C3_Axis(ExactNum(c.image.h, c.image.w, c.image.h, c.width, c.height), den,
                   c.new_height, c.padding_height, c.height)
        /\ pc = "returned" =>
             /\ resized_image.w = c.new_width + 2 * c.padding_width
             /\ resized_image.h = c.new_height + 2 * c.padding_height

\* C3 witness: a 1000x999 image in the 2560x1440 box scales to 1441x1440;
\* 2560 - 1441 is odd and the returned image is 2559 wide, 1440 high.
C3_Witness ==
  /\ pc = "returned"
  /\ resize_call.width = output_width
  /\ (resize_call.width - resize_call.new_width) % 2 = 1
  /\ (resize_call.height - resize_call.new_height) % 2 = 0
  /\ resized_image = [w |-> output_width - 1, h |-> output_height]

\* C4: the sink goes Idle -> Open -> Closed and never leaves Closed; frames
\* are written only while it is Open; it is released once, on a run that
\* completes, and only when every discovered file's frame has been written.
C4_SinkLifecycle ==
  /\ [](releases <= 1)
  /\ [](pc = "done" => video_writer = "Closed" /\ releases = 1)
  /\ [](video_writer = "Idle" => frames = <<>>)
  /\ [][ /\ frames' # frames => video_writer = "Open" /\ video_writer' = "Open"
         /\ video_writer' # video_writer =>
              \/ video_writer = "Idle" /\ video_writer' = "Open"
              \/ /\ video_writer = "Open" /\ video_writer' = "Closed"
                 /\ releases' = releases + 1
                 /\ Len(image_files) > 0
                 /\ WrittenFiles = image_files
         /\ releases' # releases => video_writer' = "Closed"
         /\ video_writer = "Closed" => video_writer' = "Closed" /\ frames' = frames
       ]_vars

\* C4 witness: a completed run whose sink is Closed after two frames.
C4_Witness ==
  pc = "done" /\ video_writer = "Closed" /\ releases = 1 /\ Len(frames) = 2

\* C5: when a discovered file does not decode, no frame is written for it or
\* for a later file, the loop never goes past it, the success message is not
\* printed and the sink is never released: the run cannot complete.
C5_AbortOnUndecodable ==
  (Discovered /\ Undecodable # {}) =>
    LET bad == CHOOSE k \in Undecodable : \A j \in Undecodable : k <= j
    IN  /\ Len(frames) < bad
        /\ pc \in {"decode", "resize", "write"} => idx <= bad
        /\ pc = "write" => idx < bad
        /\ printed = None
        /\ releases = 0 /\ video_writer # "Closed"
        /\ pc \notin {"release", "finish", "done"}

\* C5 witness: the second of two discovered files does not decode; the run
\* has failed on it with one frame written and the sink still open.
C5_Witness ==
  /\ pc = "failed" /\ error = "AttributeError"
  /\ Len(image_files) = 2 /\ Undecodable = {2}
  /\ Len(frames) = 1 /\ idx = 2
  /\ video_writer = "Open" /\ printed = None

\* C6: when discovery finds no file the run fails with a "no images found"
\* error, before the sink is opened and with no frame written.
C6_EmptyInputReported ==
  (pc = "failed" /\ Discovered /\ Len(image_files) = 0) =>
    /\ error = "no images found"
    /\ video_writer = "Idle"
    /\ frames = <<>>

\* The parent directory of the directory a path names: a trailing separator
\* does not change the directory named.
ParentDir(p) ==
  IF Len(RStripSlash(p)) = 0 THEN Dirname(p) ELSE Dirname(RStripSlash(p))

\* C7: the output path is <destination>/<name>.mp4, the name "none" when
\* none is supplied, the destination the parent directory of the input path
\* when none is supplied, a trailing separator of the input path included.
C7_OutputPath ==
  [][ pc = "create" =>
        output_path' =
          Join(IF destination_folder = None THEN ParentDir(path) ELSE destination_folder,
               Mp4Name(IF file_name = None THEN <<"n", "o", "n", "e">> ELSE file_name))
    ]_vars

\* Whether two characters are the same letter, whatever their case.
SameLetter(c, d) ==
  \/ c = d
  \/ {c, d} \in { {"a", "A"}, {"e", "E"}, {"f", "F"}, {"g", "G"}, {"i", "I"},
                  {"j", "J"}, {"n", "N"}, {"p", "P"} }

\* Whether a name is some stem, a dot and one of png, jpg, jpeg, gif in any case.
HasImageExtension(name) ==
  \E ext \in { <<"p", "n", "g">>, <<"j", "p", "g">>, <<"j", "p", "e", "g">>,
               <<"g", "i", "f">> } :
    /\ Len(name) > Len(ext)
    /\ name[Len(name) - Len(ext)] = "."
    /\ \A k \in 1..Len(ext) : SameLetter(name[Len(name) - Len(ext) + k], ext[k])

\* The files of the tree that carry an image extension, whatever they hold.
ImageEntries ==
  {n \in 1..Len(fs) : fs[n].kind = "file" /\ HasImageExtension(fs[n].name)}

\* C8: get_image_files returns the full path of every file, at any depth,
\* whose name ends case-insensitively in .png, .jpg, .jpeg or .gif, once
\* each, and nothing else: no other file, no directory, and no file is left
\* out for what it holds.
C8_DiscoveryExact ==
  pc = "first" =>
    /\ {image_files[k] : k \in 1..Len(image_files)}
         = {FullPath(fs, path, n) : n \in ImageEntries}
    /\ Len(image_files) = Cardinality(ImageEntries)

\* C8 witness: a directory named a.png holds an undecodable file b.JPG; the
\* file is returned under its full path, the directory is not.
C8_Witness ==
  /\ pc = "first"
  /\ Len(fs) = 2
  /\ fs[1].kind = "dir" /\ fs[1].name = <<"a", ".", "p", "n", "g">>
  /\ fs[2].parent = 1 /\ fs[2].kind = "file" /\ fs[2].img = NoImage
  /\ fs[2].name = <<"b", ".", "J", "P", "G">>
  /\ image_files = << <<"/", "d", "/", "a", ".", "p", "n", "g", "/", "b", ".", "J", "P", "G">> >>

\* C9: the name is optional on the command line: a run given the input path
\* alone takes it as the path and runs under the name "none"; given more
\* arguments, the first is the name, the second the path, the third the
\* destination.
C9_NameOptional ==
  pc \notin {"main"} =>
    /\ Len(sys_argv) = 2 =>
         /\ path = sys_argv[2]
         /\ file_name \in {None, <<"n", "o", "n", "e">>}
    /\ Len(sys_argv) >= 3 =>
         /\ path = sys_argv[3]
         /\ file_name = sys_argv[2]
         /\ Len(sys_argv) >= 4 => destination_folder = sys_argv[4]

\* C10: for a source image of width and height at least 1, the scaled
\* width and height are at least 1 and at most the target's, and both
\* paddings are non-negative.
C10_ScaledWithinBox ==
  pc \in {"returned", "failed"} =>
    /\ 1 <= resize_call.new_width /\ resize_call.new_width <= resize_call.width
    /\ 1 <= resize_call.new_height /\ resize_call.new_height <= resize_call.height
    /\ resize_call.padding_width >= 0 /\ resize_call.padding_height >= 0

====
